---------------------------- MODULE Spec2Model ----------------------------
(* STAR voting (jaymasl/star-voting): the tallying engine of                 *)
(* shared/src/star_logic.rs -- Election, its options and ballot log, the     *)
(* ranking comparator, finalist selection and the head-to-head runoff.       *)
EXTENDS Integers, Sequences, FiniteSets, TLC

(***************************************************************************)
(* Bounds of the model and the input sets the operations draw from.        *)
(***************************************************************************)
\* Longest ballot log, and most scores one option may have recorded.
MaxBallots == 2

\* Most options the step-by-step specifications register.
MaxOptions == 2

\* Candidate identifiers (the type parameter T) used as ballot keys and
\* offered to add_option.  The code only hashes ids and compares them for
\* equality, so the model registers new ids in the order of IdSeq: every
\* other registration order is this one with the ids renamed.  Ids past
\* MaxOptions stay unregistered in the step-by-step specifications and are
\* the unknown candidates of their ballots.
IdSeq == <<"A", "B", "C">>
Ids == {IdSeq[i] : i \in DOMAIN IdSeq}

\* enum Score { Zero, One, Two, Three, Four, Five } by its as_i8() value.
Score == 0 .. 5

\* Scores the modelled voters write on their ballots.
CastScores == {0, 1, 2}

(***************************************************************************)
(* State: the fields of one Election<T>.                                   *)
(***************************************************************************)
VARIABLES
    options,        \* HashMap<T, VotingOption<T>>: id -> [value, metrics, order]
    ballots,        \* Vec<Ballot<T>>: the log of accepted ballots
    option_order,   \* u64 registration counter
    values_iter,    \* the order in which options.values() iterates the HashMap
    result          \* what the last call returned to its caller

vars == <<options, ballots, option_order, values_iter, result>>

\* All orders in which a HashMap holding the keys S can be iterated.
Perms(S) ==
    {f \in [1 .. Cardinality(S) -> S] : \A x \in S : \E i \in DOMAIN f : f[i] = x}

\* A Ballot<T> is its scores map: a function from the ids it rates to Score.
Ballots == UNION {[S -> CastScores] : S \in SUBSET Ids}

\* ScoreMetrics::default().
DefaultMetrics == [total |-> 0, by_value |-> [v \in Score |-> 0]]

\* record as it would be if it left `total` alone.
record_KeepsTotal(metrics, score) ==
    [total |-> metrics.total,
     by_value |-> [metrics.by_value EXCEPT ![score] = @ + 1]]

\* ScoreMetrics::record.
record(metrics, score) ==
    [total |-> metrics.total + score,
     by_value |-> [metrics.by_value EXCEPT ![score] = @ + 1]]

\* VotingOption::new.
VotingOption(value, order) ==
    [value |-> value, metrics |-> DefaultMetrics, order |-> order]

\* The election as one value, the `self` of the methods below.
Self ==
    [options |-> options, ballots |-> ballots,
     option_order |-> option_order, values_iter |-> values_iter]

\* by_value[1..].iter().sum()
NonZero(by_value) ==
    by_value[1] + by_value[2] + by_value[3] + by_value[4] + by_value[5]

\* Number of scores recorded in a metrics value.
Recorded(metrics) == metrics.by_value[0] + NonZero(metrics.by_value)

(***************************************************************************)
(* Election::cast_ballot: the for loop over ballot.scores(), which visits  *)
(* the entries in the ballot's HashMap order `ord`, records each score and *)
(* leaves through `?` at the first id that is not registered.              *)
(***************************************************************************)
RECURSIVE cast_loop(_, _, _, _)
cast_loop(opts, ballot, ord, i) ==
    IF i > Len(ord)
    THEN [options |-> opts, err |-> "Ok", arg |-> "-"]
    ELSE IF ord[i] \notin DOMAIN opts
    THEN [options |-> opts, err |-> "InvalidOption", arg |-> ord[i]]
    ELSE cast_loop(
            [opts EXCEPT ![ord[i]].metrics = record(@, ballot[ord[i]])],
            ballot, ord, i + 1)

\* cast_ballot as it would be if it put the ballot at the head of the log.
cast_ballot_Prepends(self, ballot, ord) ==
    LET r == cast_loop(self.options, ballot, ord, 1)
    IN  [options |-> r.options,
         ballots |-> IF r.err = "Ok" THEN <<ballot>> \o self.ballots
                     ELSE self.ballots,
         result  |-> [op |-> "cast_ballot", err |-> r.err, arg |-> r.arg]]

\* cast_ballot as it would be if the ballot took the place of the log.
cast_ballot_ReplacesLog(self, ballot, ord) ==
    LET r == cast_loop(self.options, ballot, ord, 1)
    IN  [options |-> r.options,
         ballots |-> IF r.err = "Ok" THEN <<ballot>> ELSE self.ballots,
         result  |-> [op |-> "cast_ballot", err |-> r.err, arg |-> r.arg]]

cast_ballot(self, ballot, ord) ==
    LET r == cast_loop(self.options, ballot, ord, 1)
    IN  [options |-> r.options,
         ballots |-> IF r.err = "Ok" THEN Append(self.ballots, ballot)
                     ELSE self.ballots,
         result  |-> [op |-> "cast_ballot", err |-> r.err, arg |-> r.arg]]

(***************************************************************************)
(* Election::get_head_to_head_votes: a fold over the ballot log.           *)
(***************************************************************************)
RECURSIVE h2h_fold(_, _, _, _)
h2h_fold(blts, option1, option2, i) ==
    IF i = 0 THEN <<0, 0>>
    ELSE LET acc == h2h_fold(blts, option1, option2, i - 1)
             b   == blts[i]
         IN  IF option1 \in DOMAIN b /\ option2 \in DOMAIN b
             THEN IF b[option1] > b[option2] THEN <<acc[1] + 1, acc[2]>>
                  ELSE IF b[option1] < b[option2] THEN <<acc[1], acc[2] + 1>>
                  ELSE acc
             ELSE acc

\* The fold as it would be if equal scores counted for option2.
RECURSIVE h2h_fold_EqualForSecond(_, _, _, _)
h2h_fold_EqualForSecond(blts, option1, option2, i) ==
    IF i = 0 THEN <<0, 0>>
    ELSE LET acc == h2h_fold_EqualForSecond(blts, option1, option2, i - 1)
             b   == blts[i]
         IN  IF option1 \in DOMAIN b /\ option2 \in DOMAIN b
             THEN IF b[option1] > b[option2] THEN <<acc[1] + 1, acc[2]>>
                  ELSE <<acc[1], acc[2] + 1>>
             ELSE acc

get_head_to_head_votes_EqualForSecond(self, option1, option2) ==
    h2h_fold_EqualForSecond(self.ballots, option1, option2, Len(self.ballots))

\* The fold as it would be if equal scores counted for option1.
RECURSIVE h2h_fold_EqualForFirst(_, _, _, _)
h2h_fold_EqualForFirst(blts, option1, option2, i) ==
    IF i = 0 THEN <<0, 0>>
    ELSE LET acc == h2h_fold_EqualForFirst(blts, option1, option2, i - 1)
             b   == blts[i]
         IN  IF option1 \in DOMAIN b /\ option2 \in DOMAIN b
             THEN IF b[option1] >= b[option2] THEN <<acc[1] + 1, acc[2]>>
                  ELSE <<acc[1], acc[2] + 1>>
             ELSE acc

get_head_to_head_votes_EqualForFirst(self, option1, option2) ==
    h2h_fold_EqualForFirst(self.ballots, option1, option2, Len(self.ballots))

\* The fold as it would be if a missing score were read as a score of 0.
RECURSIVE h2h_fold_MissingAsZero(_, _, _, _)
h2h_fold_MissingAsZero(blts, option1, option2, i) ==
    IF i = 0 THEN <<0, 0>>
    ELSE LET acc == h2h_fold_MissingAsZero(blts, option1, option2, i - 1)
             b   == blts[i]
             s1  == IF option1 \in DOMAIN b THEN b[option1] ELSE 0
             s2  == IF option2 \in DOMAIN b THEN b[option2] ELSE 0
         IN  IF s1 > s2 THEN <<acc[1] + 1, acc[2]>>
             ELSE IF s1 < s2 THEN <<acc[1], acc[2] + 1>>
             ELSE acc

get_head_to_head_votes_MissingAsZero(self, option1, option2) ==
    h2h_fold_MissingAsZero(self.ballots, option1, option2, Len(self.ballots))

get_head_to_head_votes(self, option1, option2) ==
    h2h_fold(self.ballots, option1, option2, Len(self.ballots))

\* add_option as it would be without the contains_key test: insert
\* replaces the option that is already there.
add_option_NoCheck(self, option, iter) ==
    [options |-> [x \in DOMAIN self.options \cup {option} |->
                     IF x = option
                     THEN VotingOption(option, self.option_order)
                     ELSE self.options[x]],
     option_order |-> self.option_order + 1,
     values_iter |-> iter,
     result |-> [op |-> "add_option", err |-> "Ok", arg |-> option]]

(***************************************************************************)
(* Election::add_option.  `iter` is the order in which the HashMap         *)
(* iterates once the new key is in it.                                     *)
(***************************************************************************)
\* add_option as it would be if it incremented the counter before it
\* made the option.
add_option_CountsFirst(self, option, iter) ==
    IF option \in DOMAIN self.options
    THEN [options |-> self.options, option_order |-> self.option_order,
          values_iter |-> self.values_iter,
          result |-> [op |-> "add_option", err |-> "DuplicateOption",
                      arg |-> option]]
    ELSE [options |-> [x \in DOMAIN self.options \cup {option} |->
                          IF x = option
                          THEN VotingOption(option, self.option_order + 1)
                          ELSE self.options[x]],
          option_order |-> self.option_order + 1,
          values_iter |-> iter,
          result |-> [op |-> "add_option", err |-> "Ok", arg |-> option]]

add_option(self, option, iter) ==
    IF option \in DOMAIN self.options
    THEN [options |-> self.options, option_order |-> self.option_order,
          values_iter |-> self.values_iter,
          result |-> [op |-> "add_option", err |-> "DuplicateOption",
                      arg |-> option]]
    ELSE [options |-> [x \in DOMAIN self.options \cup {option} |->
                          IF x = option
                          THEN VotingOption(option, self.option_order)
                          ELSE self.options[x]],
          option_order |-> self.option_order + 1,
          values_iter |-> iter,
          result |-> [op |-> "add_option", err |-> "Ok", arg |-> option]]

(***************************************************************************)
(* Election::sort_options_by_score.  A SortedOption is [option, idx]: the  *)
(* key of the VotingOption it refers to and its index in the enumeration   *)
(* of options.values().                                                    *)
(***************************************************************************)
\* Ord::cmp on integers.
cmp(x, y) == IF x < y THEN "Less" ELSE IF x > y THEN "Greater" ELSE "Equal"

\* Ordering::then_with.
then_with(first, next) == IF first # "Equal" THEN first ELSE next

\* The closure as it would be without the by_value[1] key.
compare_NoOnes(self, a, b) ==
    LET am == self.options[a.option].metrics
        bm == self.options[b.option].metrics
    IN  then_with(cmp(bm.total, am.total),
        then_with(cmp(NonZero(bm.by_value), NonZero(am.by_value)),
        then_with(cmp(bm.by_value[5], am.by_value[5]),
        then_with(cmp(bm.by_value[4], am.by_value[4]),
        then_with(cmp(am.by_value[0], bm.by_value[0]),
                  cmp(a.idx, b.idx))))))

\* The closure as it would be without its last key.
compare_NoIndex(self, a, b) ==
    LET am == self.options[a.option].metrics
        bm == self.options[b.option].metrics
    IN  then_with(cmp(bm.total, am.total),
        then_with(cmp(NonZero(bm.by_value), NonZero(am.by_value)),
        then_with(cmp(bm.by_value[5], am.by_value[5]),
        then_with(cmp(bm.by_value[4], am.by_value[4]),
        then_with(cmp(am.by_value[0], bm.by_value[0]),
                  cmp(am.by_value[1], bm.by_value[1]))))))

\* The closure as it would be with by_value[1] compared descending.
compare_OnesDescending(self, a, b) ==
    LET am == self.options[a.option].metrics
        bm == self.options[b.option].metrics
    IN  then_with(cmp(bm.total, am.total),
        then_with(cmp(NonZero(bm.by_value), NonZero(am.by_value)),
        then_with(cmp(bm.by_value[5], am.by_value[5]),
        then_with(cmp(bm.by_value[4], am.by_value[4]),
        then_with(cmp(am.by_value[0], bm.by_value[0]),
        then_with(cmp(bm.by_value[1], am.by_value[1]),
                  cmp(a.idx, b.idx)))))))

\* The closure given to sort_unstable_by.
compare(self, a, b) ==
    LET am == self.options[a.option].metrics
        bm == self.options[b.option].metrics
    IN  then_with(cmp(bm.total, am.total),
        then_with(cmp(NonZero(bm.by_value), NonZero(am.by_value)),
        then_with(cmp(bm.by_value[5], am.by_value[5]),
        then_with(cmp(bm.by_value[4], am.by_value[4]),
        then_with(cmp(am.by_value[0], bm.by_value[0]),
        then_with(cmp(am.by_value[1], bm.by_value[1]),
                  cmp(a.idx, b.idx)))))))

\* The sort as it would be if it put the greatest element first.
RECURSIVE sort_by_Descending(_, _)
sort_by_Descending(self, S) ==
    IF S = {} THEN <<>>
    ELSE LET greatest == CHOOSE x \in S :
                        \A y \in S \ {x} : compare(self, x, y) = "Greater"
         IN  <<greatest>> \o sort_by_Descending(self, S \ {greatest})

\* sort_unstable_by: the elements of S in the order of the comparator.
RECURSIVE sort_by(_, _)
sort_by(self, S) ==
    IF S = {} THEN <<>>
    ELSE LET least == CHOOSE x \in S :
                        \A y \in S \ {x} : compare(self, x, y) = "Less"
         IN  <<least>> \o sort_by(self, S \ {least})

sort_options_by_score(self) ==
    IF DOMAIN self.options = {}
    THEN [err |-> "InsufficientOptions", sorted |-> <<>>]
    ELSE [err |-> "Ok",
          sorted |-> sort_by(self,
              {[option |-> self.values_iter[i], idx |-> i - 1] :
                  i \in DOMAIN self.values_iter})]

\* is_perfect_tie as it would be with windows(3) for windows(2).
is_perfect_tie_NeedsThree(self, candidates) ==
    IF Len(candidates) < 3 THEN FALSE
    ELSE LET w0 == self.options[candidates[1].option].metrics.by_value
             w1 == self.options[candidates[2].option].metrics.by_value
         IN  w0 = w1 /\ NonZero(w0) = NonZero(w1)

\* Election::is_perfect_tie: the first window of two, if there is one.
is_perfect_tie(self, candidates) ==
    IF Len(candidates) < 2 THEN FALSE
    ELSE LET w0 == self.options[candidates[1].option].metrics.by_value
             w1 == self.options[candidates[2].option].metrics.by_value
         IN  w0 = w1 /\ NonZero(w0) = NonZero(w1)

\* windows(2).skip(i - 1).take_while(equal totals).count()
RECURSIVE tied_windows(_, _, _)
tied_windows(self, sorted, i) ==
    IF i + 1 > Len(sorted) THEN 0
    ELSE IF self.options[sorted[i].option].metrics.total
            = self.options[sorted[i + 1].option].metrics.total
    THEN 1 + tied_windows(self, sorted, i + 1)
    ELSE 0

\* The test as it would be with `<= 2`.
too_few_OffByOne(sorted) == Len(sorted) <= 2

\* `sorted.len() < 2`, the test select_finalists and determine_winner both
\* make on the sorted options.
too_few(sorted) == Len(sorted) < 2

\* The closure as it would be with `w >= t`.
leader_dominates_NonStrict(self, leader, tied) ==
    \A k \in DOMAIN tied :
        LET wt == get_head_to_head_votes(self, leader, tied[k].option)
        IN  wt[1] >= wt[2]

\* The closure of tied.iter().all(..): the leader sorted[0] gets strictly
\* more head-to-head votes than every candidate of `tied`.
leader_dominates(self, leader, tied) ==
    \A k \in DOMAIN tied :
        LET wt == get_head_to_head_votes(self, leader, tied[k].option)
        IN  wt[1] > wt[2]

(***************************************************************************)
(* select_finalists as it would be if its last line returned sorted[0]     *)
(* twice.                                                                  *)
(***************************************************************************)
select_finalists_SameTwice(self) ==
    LET s == sort_options_by_score(self)
        sorted == s.sorted
        first_ties == tied_windows(self, sorted, 1) + 1
        second_ties == tied_windows(self, sorted, 2) + 1
        tied1 == SubSeq(sorted, 1, first_ties)
        tied2 == SubSeq(sorted, 2, second_ties + 1)
    IN  IF s.err # "Ok" THEN [err |-> s.err]
        ELSE IF too_few(sorted) THEN [err |-> "InsufficientOptions"]
        ELSE IF first_ties > 1
        THEN IF is_perfect_tie(self, tied1)
             THEN [err |-> "FirstPlaceTie"]
             ELSE [err |-> "Ok", f1 |-> tied1[1].option, f2 |-> tied1[2].option]
        ELSE IF second_ties > 1
        THEN IF is_perfect_tie(self, tied2)
             THEN IF leader_dominates(self, sorted[1].option, tied2)
                  THEN [err |-> "Ok", f1 |-> sorted[1].option,
                        f2 |-> tied2[1].option]
                  ELSE [err |-> "SecondPlaceTie"]
             ELSE [err |-> "Ok", f1 |-> sorted[1].option, f2 |-> tied2[1].option]
        ELSE [err |-> "Ok", f1 |-> sorted[1].option, f2 |-> sorted[1].option]

(***************************************************************************)
(* Election::select_finalists.                                             *)
(***************************************************************************)
select_finalists(self) ==
    LET s == sort_options_by_score(self)
        sorted == s.sorted
        first_ties == tied_windows(self, sorted, 1) + 1
        second_ties == tied_windows(self, sorted, 2) + 1
        tied1 == SubSeq(sorted, 1, first_ties)
        tied2 == SubSeq(sorted, 2, second_ties + 1)
    IN  IF s.err # "Ok" THEN [err |-> s.err]
        ELSE IF too_few(sorted) THEN [err |-> "InsufficientOptions"]
        ELSE IF first_ties > 1
        THEN IF is_perfect_tie(self, tied1)
             THEN [err |-> "FirstPlaceTie"]
             ELSE [err |-> "Ok", f1 |-> tied1[1].option, f2 |-> tied1[2].option]
        ELSE IF second_ties > 1
        THEN IF is_perfect_tie(self, tied2)
             THEN IF leader_dominates(self, sorted[1].option, tied2)
                  THEN [err |-> "Ok", f1 |-> sorted[1].option,
                        f2 |-> tied2[1].option]
                  ELSE [err |-> "SecondPlaceTie"]
             ELSE [err |-> "Ok", f1 |-> sorted[1].option, f2 |-> tied2[1].option]
        ELSE [err |-> "Ok", f1 |-> sorted[1].option, f2 |-> sorted[2].option]

(***************************************************************************)
(* Election::determine_winner.  The `additional` matchups it computes are  *)
(* dropped when it returns; they are not part of RunoffResult.             *)
(***************************************************************************)
\* The winner as it would be with `p1 > p2`.
pick_winner_Strict(f1, f2, p) == IF p[1] > p[2] THEN f1 ELSE f2

\* `if p1 >= p2 { f1.value() } else { f2.value() }`
pick_winner(f1, f2, p) == IF p[1] >= p[2] THEN f1 ELSE f2

determine_winner(self) ==
    LET s == sort_options_by_score(self)
        f == select_finalists(self)
        p == get_head_to_head_votes(self, f.f1, f.f2)
        winner == pick_winner(f.f1, f.f2, p)
    IN  IF s.err # "Ok" THEN [op |-> "determine_winner", err |-> s.err]
        ELSE IF too_few(s.sorted)
        THEN [op |-> "determine_winner", err |-> "InsufficientOptions"]
        ELSE IF f.err # "Ok" THEN [op |-> "determine_winner", err |-> f.err]
        ELSE [op |-> "determine_winner", err |-> "Ok", winner |-> winner,
              finalist1 |-> f.f1, finalist2 |-> f.f2, head_to_head |-> p]

\* The loop `for runner_up in sorted.iter().skip(1).take(3)` from its
\* i-th element on: a HeadToHeadMatchup for each one that is not f2.
RECURSIVE matchups(_, _, _, _, _)
matchups(self, sorted, winner, f2, i) ==
    IF i > Len(sorted) \/ i > 4 THEN <<>>
    ELSE (IF sorted[i].option # f2
          THEN LET wr == get_head_to_head_votes(self, winner, sorted[i].option)
               IN  <<[candidate1 |-> winner, candidate2 |-> sorted[i].option,
                      votes1 |-> wr[1], votes2 |-> wr[2]]>>
          ELSE <<>>)
            \o matchups(self, sorted, winner, f2, i + 1)

\* The local `additional` of a determine_winner call that returns a
\* result: it is filled and dropped, RunoffResult has no field for it.
additional(self) ==
    LET s == sort_options_by_score(self)
        f == select_finalists(self)
        p == get_head_to_head_votes(self, f.f1, f.f2)
    IN  matchups(self, s.sorted, pick_winner(f.f1, f.f2, p), f.f2, 2)

(***************************************************************************)
(* The state machine: one action per public operation of Election.         *)
(***************************************************************************)
Init ==
    /\ options = <<>>
    /\ ballots = <<>>
    /\ option_order = 0
    /\ values_iter = <<>>
    /\ result = [op |-> "new"]

\* The ids add_option is called with: a registered one (a duplicate) or
\* the next new one.
Offered ==
    DOMAIN options \cup
        {IdSeq[i] : i \in {Cardinality(DOMAIN options) + 1} \cap 1 .. MaxOptions}

\* The orders in which the HashMap may iterate after add_option(option).
IterAfter(option) ==
    IF option \in DOMAIN options THEN {values_iter}
    ELSE Perms(DOMAIN options \cup {option})

AddOption ==
    \E option \in Offered :
        \E iter \in IterAfter(option) :
            LET r == add_option(Self, option, iter)
            IN  /\ options' = r.options
                /\ option_order' = r.option_order
                /\ values_iter' = r.values_iter
                /\ result' = r.result
                /\ UNCHANGED ballots

\* The casts the model follows: the log and every option's count of
\* recorded scores stay within MaxBallots.
CanCast ==
    /\ Len(ballots) < MaxBallots
    /\ \A c \in DOMAIN options : Recorded(options[c].metrics) < MaxBallots

Cast(ballot, ord) ==
    LET r == cast_ballot(Self, ballot, ord)
    IN  /\ CanCast
        /\ options' = r.options
        /\ ballots' = r.ballots
        /\ result' = r.result
        /\ UNCHANGED <<option_order, values_iter>>

CastBallot ==
    \E ballot \in Ballots : \E ord \in Perms(DOMAIN ballot) : Cast(ballot, ord)

\* cast_ballot called with a ballot that rates registered options only.
CastAccepted ==
    \E ballot \in {b \in Ballots : DOMAIN b \subseteq DOMAIN options} :
        \E ord \in Perms(DOMAIN ballot) : Cast(ballot, ord)

\* determine_winner as it would be if it reset the metrics it has read.
DetermineWinner_ClearsMetrics ==
    /\ result' = determine_winner(Self)
    /\ options' = [c \in DOMAIN options |->
                      [options[c] EXCEPT !.metrics = DefaultMetrics]]
    /\ UNCHANGED <<ballots, option_order, values_iter>>

\* determine_winner as it would be if it drained the log it folds over.
DetermineWinner_Drains ==
    /\ result' = determine_winner(Self)
    /\ ballots' = <<>>
    /\ UNCHANGED <<options, option_order, values_iter>>

DetermineWinner ==
    /\ result' = determine_winner(Self)
    /\ UNCHANGED <<options, ballots, option_order, values_iter>>

Next == AddOption \/ CastBallot \/ DetermineWinner

\* Any interleaving of add_option, cast_ballot and determine_winner.
Spec == Init /\ [][Next]_vars

NextAccepted == AddOption \/ CastAccepted \/ DetermineWinner

\* The same, when every cast_ballot call succeeds.
SpecAccepted == Init /\ [][NextAccepted]_vars

(***************************************************************************)
(* The election as VoteProcessor::get_results builds it before it calls    *)
(* determine_winner: Election::new(), add_option for each option of the    *)
(* vote, then cast_ballot for each of its ballots.                         *)
(***************************************************************************)
\* The ballot lists of the votes the model tallies.
Logs == UNION {[1 .. n -> Ballots] : n \in 0 .. MaxBallots}

NewElection ==
    [options |-> <<>>, ballots |-> <<>>, option_order |-> 0,
     values_iter |-> <<>>]

\* `iter` restricted to the first n ids of IdSeq.
RECURSIVE IterOf(_, _, _)
IterOf(iter, n, i) ==
    IF i > Len(iter) THEN <<>>
    ELSE (IF \E k \in 1 .. n : IdSeq[k] = iter[i] THEN <<iter[i]>> ELSE <<>>)
            \o IterOf(iter, n, i + 1)

\* for option in &vote.options { election.add_option(..) }
RECURSIVE add_options(_, _)
add_options(iter, n) ==
    IF n = 0 THEN NewElection
    ELSE LET self == add_options(iter, n - 1)
             r == add_option(self, IdSeq[n], IterOf(iter, n, 1))
         IN  [self EXCEPT !.options = r.options,
                          !.option_order = r.option_order,
                          !.values_iter = r.values_iter]

\* for ballot in &vote.ballots { election.cast_ballot(..) }
RECURSIVE cast_ballots(_, _, _)
cast_ballots(self, log, n) ==
    IF n = 0 THEN self
    ELSE LET before == cast_ballots(self, log, n - 1)
             ord == CHOOSE o \in Perms(DOMAIN log[n]) : TRUE
             r == cast_ballot(before, log[n], ord)
         IN  [before EXCEPT !.options = r.options, !.ballots = r.ballots]

InitGetResults ==
    \E log \in Logs : \E iter \in Perms(Ids) :
        LET e == cast_ballots(add_options(iter, Len(IdSeq)), log, Len(log))
        IN  /\ options = e.options
            /\ ballots = e.ballots
            /\ option_order = e.option_order
            /\ values_iter = e.values_iter
            /\ result = [op |-> "new"]

NextGetResults == DetermineWinner

\* determine_winner on every election get_results can build.
SpecGetResults == InitGetResults /\ [][NextGetResults]_vars

(***************************************************************************)
(* The ranking by itself: sort_options_by_score on elections whose         *)
(* ballots use the whole range of Score.                                   *)
(***************************************************************************)
\* The options these elections register.
RankedIds == {IdSeq[i] : i \in 1 .. MaxOptions}

\* Ballots over RankedIds with any Score.
RankedBallots == UNION {[S -> Score] : S \in SUBSET RankedIds}

RankedLogs == UNION {[1 .. n -> RankedBallots] : n \in 0 .. MaxBallots}

InitRanking ==
    \E log \in RankedLogs : \E iter \in Perms(RankedIds) :
        LET e == cast_ballots(add_options(iter, MaxOptions), log, Len(log))
        IN  /\ options = e.options
            /\ ballots = e.ballots
            /\ option_order = e.option_order
            /\ values_iter = e.values_iter
            /\ result = [op |-> "new"]

SortOptions ==
    /\ result' = [op |-> "sort_options_by_score",
                  err |-> sort_options_by_score(Self).err,
                  sorted |-> sort_options_by_score(Self).sorted]
    /\ UNCHANGED <<options, ballots, option_order, values_iter>>

NextRanking == SortOptions

\* sort_options_by_score on every election of RankedLogs.
SpecRanking == InitRanking /\ [][NextRanking]_vars

(***************************************************************************)
(* Score and Ballot construction: Score::try_from, Score::as_i8 and        *)
(* Ballot::new, which take no Election.  A Score is named by its variant;  *)
(* a Result is [err, value] with the Ok or Err payload in `value`.         *)
(***************************************************************************)
\* The variants of enum Score in declaration order.
ScoreVariants == <<"Zero", "One", "Two", "Three", "Four", "Five">>

\* The values of i8.
I8 == -128 .. 127

\* Score::as_i8: `self as i8`, the discriminant of the variant.
as_i8(score) == CHOOSE d \in 0 .. 5 : ScoreVariants[d + 1] = score

\* try_from as it would be if it read a negative value as Score::Zero.
try_from_NegativeIsZero(v) ==
    CASE v <= 0 -> [err |-> "Ok", value |-> "Zero"]
      [] v = 1 -> [err |-> "Ok", value |-> "One"]
      [] v = 2 -> [err |-> "Ok", value |-> "Two"]
      [] v = 3 -> [err |-> "Ok", value |-> "Three"]
      [] v = 4 -> [err |-> "Ok", value |-> "Four"]
      [] v = 5 -> [err |-> "Ok", value |-> "Five"]
      [] OTHER -> [err |-> "Err", value |-> v]

\* <Score as TryFrom<i8>>::try_from.
try_from(v) ==
    CASE v = 0 -> [err |-> "Ok", value |-> "Zero"]
      [] v = 1 -> [err |-> "Ok", value |-> "One"]
      [] v = 2 -> [err |-> "Ok", value |-> "Two"]
      [] v = 3 -> [err |-> "Ok", value |-> "Three"]
      [] v = 4 -> [err |-> "Ok", value |-> "Four"]
      [] v = 5 -> [err |-> "Ok", value |-> "Five"]
      [] OTHER -> [err |-> "Err", value |-> v]

\* The collect() of Ballot::new: the entries of scores_map in its HashMap
\* order `ord`, each converted, stopping at the first Err.
RECURSIVE collect(_, _, _, _)
collect(scores_map, ord, i, scores) ==
    IF i > Len(ord) THEN [err |-> "Ok", value |-> scores]
    ELSE LET r == try_from(scores_map[ord[i]])
         IN  IF r.err = "Err"
             THEN [err |-> "InvalidScore", value |-> r.value]
             ELSE collect(scores_map, ord, i + 1,
                          [k \in DOMAIN scores \cup {ord[i]} |->
                              IF k = ord[i] THEN r.value ELSE scores[k]])

\* Ballot::new as it would be if it left out the entries it cannot convert.
RECURSIVE collect_SkipsInvalid(_, _, _, _)
collect_SkipsInvalid(scores_map, ord, i, scores) ==
    IF i > Len(ord) THEN [err |-> "Ok", value |-> scores]
    ELSE LET r == try_from(scores_map[ord[i]])
         IN  IF r.err = "Err"
             THEN collect_SkipsInvalid(scores_map, ord, i + 1, scores)
             ELSE collect_SkipsInvalid(scores_map, ord, i + 1,
                          [k \in DOMAIN scores \cup {ord[i]} |->
                              IF k = ord[i] THEN r.value ELSE scores[k]])

Ballot_new_SkipsInvalid(scores_map, ord) ==
    collect_SkipsInvalid(scores_map, ord, 1, <<>>)

\* Ballot::new.
Ballot_new(scores_map, ord) == collect(scores_map, ord, 1, <<>>)

\* The i8 values the modelled callers put in a scores map.
RawScores == {-128, -1, 0, 5, 6, 127}

\* The HashMap<T, i8> values Ballot::new is called with.
ScoresMaps == UNION {[S -> RawScores] : S \in SUBSET Ids}

ScoreTryFrom ==
    /\ \E v \in I8 :
          result' = [op |-> "try_from", arg |-> v,
                     err |-> try_from(v).err, value |-> try_from(v).value]
    /\ UNCHANGED <<options, ballots, option_order, values_iter>>

BallotNew ==
    /\ \E scores_map \in ScoresMaps : \E ord \in Perms(DOMAIN scores_map) :
          result' = [op |-> "Ballot::new", arg |-> scores_map,
                     err |-> Ballot_new(scores_map, ord).err,
                     value |-> Ballot_new(scores_map, ord).value]
    /\ UNCHANGED <<options, ballots, option_order, values_iter>>

NextConstruct == ScoreTryFrom \/ BallotNew

\* Score::try_from on every i8 and Ballot::new on every map of ScoresMaps.
SpecConstruct == Init /\ [][NextConstruct]_vars

(***************************************************************************)
(* VoteProcessor::calculate_stats and VoteProcessor::get_results.  A Vote  *)
(* is [options, ballots]: the Vec of option names and the Vec of the       *)
(* ballots' scores maps (HashMap<String, i8>); its other fields are not    *)
(* read by the tally.  An f64 quotient is kept as the pair it is the       *)
(* quotient of.                                                            *)
(***************************************************************************)
\* The VoteOptionStats every option starts with.
NewStats ==
    [total_score |-> 0, average_score |-> <<0, 1>>,
     frequency |-> [v \in 0 .. 5 |-> 0], total_votes |-> 0]

\* The body of `if let Some(stats)` as it would be if it did not
\* count a score of 0 as a vote.
tally_SkipsZero(stats, score) ==
    [total_score |-> stats.total_score + score,
     average_score |-> stats.average_score,
     frequency |-> [v \in DOMAIN stats.frequency \cup {score} |->
                      (IF v \in DOMAIN stats.frequency
                       THEN stats.frequency[v] ELSE 0)
                          + (IF v = score THEN 1 ELSE 0)],
     total_votes |-> stats.total_votes + (IF score = 0 THEN 0 ELSE 1)]

\* The body of `if let Some(stats) = option_scores.get_mut(option)`.
tally(stats, score) ==
    [total_score |-> stats.total_score + score,
     average_score |-> stats.average_score,
     frequency |-> [v \in DOMAIN stats.frequency \cup {score} |->
                      (IF v \in DOMAIN stats.frequency
                       THEN stats.frequency[v] ELSE 0)
                          + (IF v = score THEN 1 ELSE 0)],
     total_votes |-> stats.total_votes + 1]

\* for (option, &score) in &ballot.scores, in the map's order `ord`.
RECURSIVE tally_scores(_, _, _, _)
tally_scores(option_scores, scores, ord, i) ==
    IF i > Len(ord) THEN option_scores
    ELSE tally_scores(
            IF ord[i] \in DOMAIN option_scores
            THEN [option_scores EXCEPT ![ord[i]] = tally(@, scores[ord[i]])]
            ELSE option_scores,
            scores, ord, i + 1)

\* for ballot in &vote.ballots
RECURSIVE tally_ballots(_, _, _)
tally_ballots(option_scores, blts, n) ==
    IF n = 0 THEN option_scores
    ELSE tally_scores(tally_ballots(option_scores, blts, n - 1), blts[n],
                      CHOOSE o \in Perms(DOMAIN blts[n]) : TRUE, 1)

calculate_stats(vote) ==
    LET names == {vote.options[i] : i \in DOMAIN vote.options}
        summed == tally_ballots([o \in names |-> NewStats], vote.ballots,
                                Len(vote.ballots))
    IN  [option_scores |->
            [o \in names |->
                IF summed[o].total_votes > 0
                THEN [summed[o] EXCEPT !.average_score =
                        <<summed[o].total_score, summed[o].total_votes>>]
                ELSE summed[o]],
         total_ballots |-> Len(vote.ballots)]

\* Ballot::new(ballot.scores.clone()), with the Ballot written by the
\* as_i8() values of its scores as everywhere in this module.
ballot_of(scores) ==
    LET b == Ballot_new(scores, CHOOSE o \in Perms(DOMAIN scores) : TRUE)
    IN  IF b.err = "Ok"
        THEN [err |-> "Ok", value |-> [k \in DOMAIN b.value |-> as_i8(b.value[k])]]
        ELSE b

\* get_results.  `ongoing` is the outcome of the test on the clock, `iter`
\* the order in which the election's HashMap iterates.  The options of
\* the votes tallied here are the first ids of IdSeq.
get_results(vote, iter, ongoing) ==
    LET n == Len(vote.options)
        names == {vote.options[i] : i \in DOMAIN vote.options}
        bad == {i \in DOMAIN vote.ballots :
                    \/ ballot_of(vote.ballots[i]).err # "Ok"
                    \/ ~(DOMAIN vote.ballots[i] \subseteq names)}
        first_bad == CHOOSE i \in bad : \A j \in bad : i <= j
        log == [i \in DOMAIN vote.ballots |-> ballot_of(vote.ballots[i]).value]
        election == cast_ballots(add_options(iter, n), log, Len(log))
        r == determine_winner(election)
    IN  IF ongoing
        THEN [op |-> "get_results", ret |-> "Err",
              msg |-> "Vote is still ongoing"]
        ELSE IF Cardinality(names) < n
        THEN [op |-> "get_results", ret |-> "Err",
              msg |-> "Failed to add option"]
        ELSE IF bad # {}
        THEN IF ballot_of(vote.ballots[first_bad]).err # "Ok"
             THEN [op |-> "get_results", ret |-> "panic",
                   msg |-> "unwrap on InvalidScore"]
             ELSE [op |-> "get_results", ret |-> "Err", msg |-> "InvalidOption"]
        ELSE IF r.err = "Ok"
        THEN [op |-> "get_results", ret |-> "Ok",
              winner |-> r.winner, error |-> "None",
              stats |-> calculate_stats(vote),
              head_to_head |-> [finalist1 |-> r.finalist1,
                                finalist2 |-> r.finalist2,
                                finalist1_votes |-> r.head_to_head[1],
                                finalist2_votes |-> r.head_to_head[2]]]
        ELSE [op |-> "get_results", ret |-> "Ok",
              winner |-> "None", error |-> r.err,
              stats |-> calculate_stats(vote),
              head_to_head |-> "None"]

\* The ballot lists of a vote with the first n ids as options, whose
\* ballots rate these options only.
VoteLogs(n) ==
    UNION {[1 .. k -> UNION {[S -> CastScores] :
                                S \in SUBSET {IdSeq[i] : i \in 1 .. n}}] :
              k \in 0 .. MaxBallots}

\* The vote the election of the state was built from.
VoteOf == [options |-> SubSeq(IdSeq, 1, option_order), ballots |-> ballots]

InitVote ==
    \E n \in 0 .. Len(IdSeq) :
        \E log \in VoteLogs(n) : \E iter \in Perms({IdSeq[i] : i \in 1 .. n}) :
            LET e == cast_ballots(add_options(iter, n), log, Len(log))
            IN  /\ options = e.options
                /\ ballots = e.ballots
                /\ option_order = e.option_order
                /\ values_iter = e.values_iter
                /\ result = [op |-> "new"]

GetResults ==
    /\ \E ongoing \in BOOLEAN :
          result' = get_results(VoteOf, values_iter, ongoing)
    /\ UNCHANGED <<options, ballots, option_order, values_iter>>

NextVote == GetResults

\* get_results on every vote of up to three options.
SpecVote == InitVote /\ [][NextVote]_vars

(***************************************************************************)
(* determine_winner on elections of five options, where the sorted order   *)
(* has the ranks 0 to 4.                                                   *)
(***************************************************************************)
WideIdSeq == <<"A", "B", "C", "D", "E">>

WideIds == {WideIdSeq[i] : i \in DOMAIN WideIdSeq}

\* Ballots that rate at most two of the five options.
WideBallots ==
    UNION {[S -> CastScores] : S \in {T \in SUBSET WideIds : Cardinality(T) <= 2}}

WideLogs == UNION {[1 .. n -> WideBallots] : n \in 0 .. MaxBallots}

\* The HashMap orders followed for these elections: the order of
\* registration and its reverse.
WideIters ==
    {WideIdSeq, [i \in DOMAIN WideIdSeq |-> WideIdSeq[Len(WideIdSeq) + 1 - i]]}

\* election.add_option for the first n of `ids`; the HashMap iterates in
\* the order the registered ids have in `iter`.
RECURSIVE register(_, _, _)
register(ids, iter, n) ==
    IF n = 0 THEN NewElection
    ELSE LET self == register(ids, iter, n - 1)
             Among(x) == \E k \in 1 .. n : ids[k] = x
             r == add_option(self, ids[n], SelectSeq(iter, Among))
         IN  [self EXCEPT !.options = r.options,
                          !.option_order = r.option_order,
                          !.values_iter = r.values_iter]

InitMatchups ==
    \E log \in WideLogs : \E iter \in WideIters :
        LET e == cast_ballots(register(WideIdSeq, iter, Len(WideIdSeq)),
                              log, Len(log))
        IN  /\ options = e.options
            /\ ballots = e.ballots
            /\ option_order = e.option_order
            /\ values_iter = e.values_iter
            /\ result = [op |-> "new"]

NextMatchups == DetermineWinner

SpecMatchups == InitMatchups /\ [][NextMatchups]_vars

(***************************************************************************)
(* The ranking and the runoff together: sort_options_by_score and          *)
(* determine_winner on the elections of SpecRanking (two options, any      *)
(* Score) and of SpecGetResults (three options).                           *)
(***************************************************************************)
InitTies == InitRanking \/ InitGetResults

NextTies == SortOptions \/ DetermineWinner

SpecTies == InitTies /\ [][NextTies]_vars

(***************************************************************************)
(* What the claims speak of, stated from the ballot log and the metrics    *)
(* without the operators above.                                            *)
(***************************************************************************)
Registered == DOMAIN options

TotalOf(c) == options[c].metrics.total

ByValueOf(c) == options[c].metrics.by_value

\* The ballots of the log that rate c.
Scoring(c) == {i \in DOMAIN ballots : c \in DOMAIN ballots[i]}

\* The ballots of the log that rate a and b and rate a strictly higher.
Prefer(a, b) ==
    {i \in DOMAIN ballots :
        /\ a \in DOMAIN ballots[i]
        /\ b \in DOMAIN ballots[i]
        /\ ballots[i][a] > ballots[i][b]}

\* sum over v in 0..5 of v * by_value[v]
WeightedSum(by_value) ==
    0 * by_value[0] + 1 * by_value[1] + 2 * by_value[2] + 3 * by_value[3]
        + 4 * by_value[4] + 5 * by_value[5]

\* The candidates holding the highest total.
Leaders == {c \in Registered : \A d \in Registered : TotalOf(c) >= TotalOf(d)}

\* The candidates holding the highest total below the leaders'.
SecondGroup ==
    {c \in Registered \ Leaders :
        \A d \in Registered \ Leaders : TotalOf(c) >= TotalOf(d)}

\* Every candidate of G has the same six-bucket distribution.
PerfectTie(G) == \A c \in G : \A d \in G : ByValueOf(c) = ByValueOf(d)

\* The candidate whose total is strictly the highest, when there is one.
Leader == CHOOSE c \in Leaders : TRUE

\* a gets strictly more head-to-head votes than b.
Beats(a, b) == Cardinality(Prefer(a, b)) > Cardinality(Prefer(b, a))

\* One candidate leads alone and two or more share the next total with
\* identical distributions.
SecondPlacePerfectTie ==
    /\ Cardinality(Leaders) = 1
    /\ Cardinality(SecondGroup) >= 2
    /\ PerfectTie(SecondGroup)

\* sort_options_by_score has returned its ranking.
Sorted == result.op = "sort_options_by_score" /\ result.err = "Ok"

\* The six metric keys of the ranking, each turned so that the smaller
\* value ranks higher.
RankKey(c) ==
    <<0 - TotalOf(c),
      0 - (ByValueOf(c)[1] + ByValueOf(c)[2] + ByValueOf(c)[3]
              + ByValueOf(c)[4] + ByValueOf(c)[5]),
      0 - ByValueOf(c)[5],
      0 - ByValueOf(c)[4],
      ByValueOf(c)[0],
      ByValueOf(c)[1]>>

\* The first key on which c and d differ (7 when they differ on none).
FirstDifference(c, d) ==
    IF RankKey(c) = RankKey(d) THEN 7
    ELSE CHOOSE k \in 1 .. 6 :
            /\ RankKey(c)[k] # RankKey(d)[k]
            /\ \A j \in 1 .. k - 1 : RankKey(c)[j] = RankKey(d)[j]

\* The SortedOption sort_options_by_score makes of c.
SortedOptionOf(c) ==
    [option |-> c,
     idx |-> (CHOOSE i \in DOMAIN values_iter : values_iter[i] = c) - 1]

\* c's rank: the number of candidates the comparator puts before it.
RankOf(c) ==
    Cardinality({d \in Registered :
        compare(Self, SortedOptionOf(d), SortedOptionOf(c)) = "Less"})

\* The logged ballots that give c the score v.
GivenScore(c, v) ==
    {i \in DOMAIN ballots : c \in DOMAIN ballots[i] /\ ballots[i][c] = v}

\* The candidate at rank k of the comparator order.
AtRank(k) == CHOOSE c \in Registered : RankOf(c) = k

\* The closure finds a and b equal on its six metric keys: it returns
\* Equal when both are given the same index.
MetricKeysEqual(a, b) ==
    compare(Self, [option |-> a, idx |-> 0], [option |-> b, idx |-> 0]) = "Equal"

\* The ballots of the log that rate both a and b.
ScoreBoth(a, b) ==
    {i \in DOMAIN ballots : a \in DOMAIN ballots[i] /\ b \in DOMAIN ballots[i]}

Returned == result.op = "determine_winner"

ReturnedOk == Returned /\ result.err = "Ok"

(***************************************************************************)
(* C1.  cast_ballot with a ballot that names an unregistered candidate     *)
(* returns InvalidOption and leaves the election unchanged: no metrics     *)
(* are modified and the log is not extended.                               *)
(***************************************************************************)
C1_RejectedCastChangesNothing ==
    [][\A ballot \in Ballots : \A ord \in Perms(DOMAIN ballot) :
          (~(DOMAIN ballot \subseteq Registered) /\ Cast(ballot, ord))
              => /\ result'.err = "InvalidOption"
                 /\ options' = options
                 /\ ballots' = ballots]_vars

(***************************************************************************)
(* C2.  After any sequence of add_option calls and successful cast_ballot  *)
(* calls, every registered candidate has total = sum of v * by_value[v],   *)
(* and the sum of its by_value equals the number of logged ballots that    *)
(* hold a score for it.                                                    *)
(***************************************************************************)
C2_MetricsInvariant ==
    \A c \in Registered :
        /\ TotalOf(c) = WeightedSum(ByValueOf(c))
        /\ ByValueOf(c)[0] + ByValueOf(c)[1] + ByValueOf(c)[2] + ByValueOf(c)[3]
              + ByValueOf(c)[4] + ByValueOf(c)[5] = Cardinality(Scoring(c))

\* Two ballots are logged: one candidate is rated 1 and 2, another once.
C2_Witness ==
    /\ Len(ballots) = 2
    /\ \E c \in Registered : \E d \in Registered :
        /\ Cardinality(Scoring(c)) = 2
        /\ ByValueOf(c)[1] = 1
        /\ ByValueOf(c)[2] = 1
        /\ Cardinality(Scoring(d)) = 1

(***************************************************************************)
(* C3.  Two elections built by the same add_option calls and the same      *)
(* cast_ballot calls return the same determine_winner outcome.  The other  *)
(* election holds the same options, metrics and log; its HashMap is        *)
(* another instance, which may iterate in any order.                       *)
(***************************************************************************)
C3_Deterministic ==
    Returned =>
        \A iter \in Perms(Registered) :
            determine_winner([Self EXCEPT !.values_iter = iter]) = result

(***************************************************************************)
(* C4.  Calling determine_winner twice with no add_option or cast_ballot   *)
(* in between returns identical outcomes.                                  *)
(***************************************************************************)
C4_Idempotent ==
    [][(Returned /\ result'.op = "determine_winner") => result' = result]_vars

\* determine_winner has returned a result on a log of two ballots (and can
\* be called again).
C4_Witness ==
    /\ ReturnedOk
    /\ Len(ballots) = 2
    /\ result.head_to_head # <<0, 0>>

(***************************************************************************)
(* C5.  With at least two candidates, when two or more candidates share    *)
(* the highest total and all of them have identical by_value               *)
(* distributions, determine_winner returns FirstPlaceTie.                  *)
(***************************************************************************)
C5_FirstPlaceTie ==
    (/\ Returned
     /\ Cardinality(Registered) >= 2
     /\ Cardinality(Leaders) >= 2
     /\ PerfectTie(Leaders))
        => result.err = "FirstPlaceTie"

\* Two candidates were given the same scores by two ballots and lead the
\* third.
C5_Witness ==
    /\ Returned
    /\ Len(ballots) = 2
    /\ Cardinality(Leaders) = 2
    /\ PerfectTie(Leaders)
    /\ \A c \in Leaders : TotalOf(c) > 0 /\ Cardinality(Scoring(c)) = 2

(***************************************************************************)
(* C6.  When the rank-0 candidate's total is strictly greater than every   *)
(* other, two or more candidates share the second-highest total as a       *)
(* perfect tie, and the rank-0 candidate gets strictly more head-to-head   *)
(* votes than each of them, determine_winner succeeds with finalist1 the   *)
(* rank-0 candidate and finalist2 the first of the tied group in sorted    *)
(* order.                                                                  *)
(***************************************************************************)
C6_SecondPlaceTieResolved ==
    (/\ Returned
     /\ SecondPlacePerfectTie
     /\ \A m \in SecondGroup : Beats(Leader, m))
        => /\ result.err = "Ok"
           /\ result.finalist1 = Leader
           /\ result.finalist2 \in SecondGroup
           /\ result.finalist2 = sort_options_by_score(Self).sorted[2].option

\* The leader beats both tied candidates, one of them on a ballot where
\* the other ties with the leader.
C6_Witness ==
    /\ Returned
    /\ SecondPlacePerfectTie
    /\ \A m \in SecondGroup : Beats(Leader, m)
    /\ \E i \in DOMAIN ballots : \E m \in SecondGroup :
        /\ Leader \in DOMAIN ballots[i]
        /\ m \in DOMAIN ballots[i]
        /\ ballots[i][Leader] = ballots[i][m]

(***************************************************************************)
(* C7.  When the rank-0 candidate's total is strictly greater than every   *)
(* other, the group sharing the second-highest total is a perfect tie,     *)
(* and the rank-0 candidate does not get strictly more head-to-head votes  *)
(* than at least one of its members, determine_winner returns              *)
(* SecondPlaceTie.                                                         *)
(***************************************************************************)
C7_SecondPlaceTie ==
    (/\ Returned
     /\ SecondPlacePerfectTie
     /\ \E m \in SecondGroup : ~Beats(Leader, m))
        => result.err = "SecondPlaceTie"

\* The leader beats one tied candidate and draws with the other.
C7_Witness ==
    /\ Returned
    /\ SecondPlacePerfectTie
    /\ \E m \in SecondGroup : Beats(Leader, m)
    /\ \E m \in SecondGroup :
        /\ Cardinality(Prefer(Leader, m)) = 1
        /\ Cardinality(Prefer(m, Leader)) = 1

(***************************************************************************)
(* C8.  In every successful result, winner = finalist1 exactly when        *)
(* head_to_head.0 >= head_to_head.1 and winner = finalist2 exactly when    *)
(* head_to_head.0 < head_to_head.1: a head-to-head tie goes to finalist1.  *)
(***************************************************************************)
C8_WinnerRule ==
    ReturnedOk =>
        /\ (result.winner = result.finalist1)
              <=> (result.head_to_head[1] >= result.head_to_head[2])
        /\ (result.winner = result.finalist2)
              <=> (result.head_to_head[1] < result.head_to_head[2])

\* finalist2 wins the runoff.
C8_Witness ==
    /\ ReturnedOk
    /\ result.head_to_head[1] < result.head_to_head[2]
    /\ result.winner = result.finalist2

(***************************************************************************)
(* C9.  The head_to_head pair of a result is computed from the ballot log  *)
(* alone: votes for f1 are the ballots that score both finalists and       *)
(* score f1 strictly higher, votes for f2 those that score both and score  *)
(* f2 strictly higher; equal scores and ballots missing either finalist    *)
(* add to neither count.                                                   *)
(***************************************************************************)
C9_HeadToHeadFromLog ==
    ReturnedOk =>
        result.head_to_head =
            <<Cardinality(Prefer(result.finalist1, result.finalist2)),
              Cardinality(Prefer(result.finalist2, result.finalist1))>>

\* One ballot rates finalist1 above 0 and not finalist2, the other rates
\* both and prefers one of them.
C9_Witness ==
    /\ ReturnedOk
    /\ Len(ballots) = 2
    /\ result.head_to_head[1] + result.head_to_head[2] = 1
    /\ \E i \in DOMAIN ballots :
        /\ result.finalist1 \in DOMAIN ballots[i]
        /\ result.finalist2 \notin DOMAIN ballots[i]
        /\ ballots[i][result.finalist1] > 0

(***************************************************************************)
(* C10.  determine_winner returns InsufficientOptions whenever fewer than  *)
(* two candidates are registered, whatever ballots were cast, and never    *)
(* when two or more are registered.                                        *)
(***************************************************************************)
C10_InsufficientOptions ==
    Returned =>
        (result.err = "InsufficientOptions" <=> Cardinality(Registered) < 2)

\* One candidate, a logged ballot that rates it, and InsufficientOptions.
C10_Witness ==
    /\ Returned
    /\ result.err = "InsufficientOptions"
    /\ Cardinality(Registered) = 1
    /\ \E i \in DOMAIN ballots : DOMAIN ballots[i] = Registered

(***************************************************************************)
(* C11.  The ranking orders candidates lexicographically by total          *)
(* descending, count of non-zero scores descending, by_value[5]            *)
(* descending, by_value[4] descending, by_value[0] ascending and           *)
(* by_value[1] ascending: of two candidates that differ on some key, the   *)
(* one that is better on the first key they differ on ranks higher, so     *)
(* each key is consulted only when all earlier keys are equal.             *)
(***************************************************************************)
C11_LexicographicRanking ==
    Sorted =>
        \A i \in DOMAIN result.sorted : \A j \in DOMAIN result.sorted :
            LET c == result.sorted[i].option
                d == result.sorted[j].option
                k == FirstDifference(c, d)
            IN  (i < j /\ k <= 6) => RankKey(c)[k] < RankKey(d)[k]

\* Two candidates rated by two ballots are equal on the first five keys
\* and ranked by their counts of 1s.
C11_Witness ==
    /\ Sorted
    /\ Len(ballots) = 2
    /\ Len(result.sorted) = 2
    /\ FirstDifference(result.sorted[1].option, result.sorted[2].option) = 6
    /\ result.sorted[2].idx = 0

(***************************************************************************)
(* C12.  When two candidates are equal on every preceding key of the       *)
(* ranking, the candidate registered earlier (the smaller `order`) ranks   *)
(* higher: `order` is the last tie-break key.                              *)
(***************************************************************************)
C12_RegistrationOrderLast ==
    Sorted =>
        \A i \in DOMAIN result.sorted : \A j \in DOMAIN result.sorted :
            LET c == result.sorted[i].option
                d == result.sorted[j].option
            IN  (i < j /\ FirstDifference(c, d) = 7)
                    => options[c].order < options[d].order

(***************************************************************************)
(* C13.  Score::try_from(v) succeeds exactly for v in 0..5, yielding the   *)
(* Score whose as_i8() is v, and fails for every other i8 value,           *)
(* negatives included, returning the rejected value as the error.          *)
(***************************************************************************)
C13_TryFrom ==
    result.op = "try_from" =>
        /\ result.err = "Ok" <=> result.arg \in 0 .. 5
        /\ result.err = "Ok" => as_i8(result.value) = result.arg
        /\ result.err # "Ok" => result.err = "Err" /\ result.value = result.arg

\* try_from(-1) has returned Err(-1).
C13_Witness ==
    /\ result.op = "try_from"
    /\ result.arg = -1
    /\ result.err = "Err"
    /\ result.value = -1

(***************************************************************************)
(* C14.  Ballot::new is all-or-nothing: if any entry of the mapping has a  *)
(* value outside 0..5 it returns InvalidScore carrying an out-of-range     *)
(* value of the mapping and no ballot; otherwise it returns a ballot with  *)
(* exactly the keys of the mapping and the corresponding scores.  The      *)
(* empty mapping yields a valid empty ballot.                              *)
(***************************************************************************)
C14_BallotNew ==
    result.op = "Ballot::new" =>
        IF \E k \in DOMAIN result.arg : result.arg[k] \notin 0 .. 5
        THEN /\ result.err = "InvalidScore"
             /\ \E k \in DOMAIN result.arg :
                    result.value = result.arg[k] /\ result.arg[k] \notin 0 .. 5
        ELSE /\ result.err = "Ok"
             /\ DOMAIN result.value = DOMAIN result.arg
             /\ \A k \in DOMAIN result.arg :
                    as_i8(result.value[k]) = result.arg[k]
             /\ result.arg = <<>> => result.value = <<>>

\* A mapping with a valid entry and two different invalid ones was
\* rejected with the larger of the two.
C14_Witness ==
    /\ result.op = "Ballot::new"
    /\ result.err = "InvalidScore"
    /\ \E k \in DOMAIN result.arg : result.arg[k] \in 0 .. 5
    /\ \E k \in DOMAIN result.arg : result.arg[k] = -1
    /\ \E k \in DOMAIN result.arg : result.arg[k] = 6
    /\ result.value = 6

(***************************************************************************)
(* C15.  add_option with an identifier that is already registered returns  *)
(* DuplicateOption(id) and changes nothing: the option set, every          *)
(* option's metrics and order, the registration counter and the ballot     *)
(* log are unchanged.                                                      *)
(***************************************************************************)
C15_DuplicateChangesNothing ==
    [][(result'.op = "add_option" /\ result'.arg \in DOMAIN options)
          => /\ result'.err = "DuplicateOption"
             /\ DOMAIN options' = DOMAIN options
             /\ \A c \in DOMAIN options :
                    /\ options'[c].metrics = options[c].metrics
                    /\ options'[c].order = options[c].order
             /\ option_order' = option_order
             /\ ballots' = ballots]_vars

\* A duplicate was refused in an election that has a logged ballot and an
\* option with recorded scores.
C15_Witness ==
    /\ result.op = "add_option"
    /\ result.err = "DuplicateOption"
    /\ result.arg \in Registered
    /\ Len(ballots) >= 1
    /\ TotalOf(result.arg) > 0
    /\ option_order = 2

(***************************************************************************)
(* C16.  determine_winner is read-only: whether it returns a result or an  *)
(* error, the set of options, every option's total, by_value and order,    *)
(* the registration counter and the ballot log are the same after the      *)
(* call as before it.                                                      *)
(***************************************************************************)
C16_ReadOnly ==
    [][result'.op = "determine_winner"
          => /\ DOMAIN options' = DOMAIN options
             /\ \A c \in DOMAIN options :
                    /\ options'[c].metrics.total = options[c].metrics.total
                    /\ options'[c].metrics.by_value = options[c].metrics.by_value
                    /\ options'[c].order = options[c].order
             /\ option_order' = option_order
             /\ ballots' = ballots]_vars

\* determine_winner has returned an error on an election with a logged
\* ballot and recorded scores.
C16_Witness ==
    /\ Returned
    /\ result.err = "FirstPlaceTie"
    /\ Len(ballots) >= 1
    /\ \E c \in Registered : TotalOf(c) > 0

(***************************************************************************)
(* C17.  In every state reachable by add_option and cast_ballot calls,     *)
(* rejected calls included, the metrics are in sync with the ballot log:   *)
(* for every candidate c and score value v, by_value[v] of c equals the    *)
(* number of logged ballots that give c the score v.                       *)
(***************************************************************************)
C17_MetricsInSync ==
    \A c \in Registered : \A v \in Score :
        ByValueOf(c)[v] = Cardinality(GivenScore(c, v))

(***************************************************************************)
(* C18.  Whenever determine_winner returns a result, finalist1 is the      *)
(* rank-0 candidate and finalist2 the rank-1 candidate of the comparator   *)
(* order, in every branch.                                                 *)
(***************************************************************************)
C18_FinalistsAreTopTwo ==
    ReturnedOk => RankOf(result.finalist1) = 0 /\ RankOf(result.finalist2) = 1

\* The finalists share the highest total with different distributions:
\* the secondary keys chose between them.
C18_Witness ==
    /\ ReturnedOk
    /\ Len(ballots) = 2
    /\ result.finalist1 \in Leaders
    /\ result.finalist2 \in Leaders
    /\ ByValueOf(result.finalist1) # ByValueOf(result.finalist2)

(***************************************************************************)
(* C19.  With two or more registered candidates, determine_winner fails    *)
(* only in two situations: FirstPlaceTie when the top total is shared and  *)
(* the leading group is a perfect tie, SecondPlaceTie when the rank-0      *)
(* total is strictly the highest, the group sharing rank 1's total is a    *)
(* perfect tie and the leader does not strictly beat every member of it    *)
(* head-to-head.  In every other state it returns a result, and the two    *)
(* errors are never both applicable.                                       *)
(***************************************************************************)
C19_OnlyTwoFailures ==
    (Returned /\ Cardinality(Registered) >= 2) =>
        /\ result.err \in {"Ok", "FirstPlaceTie", "SecondPlaceTie"}
        /\ result.err = "FirstPlaceTie"
              => Cardinality(Leaders) >= 2 /\ PerfectTie(Leaders)
        /\ result.err = "SecondPlaceTie"
              => /\ SecondPlacePerfectTie
                 /\ \E m \in SecondGroup : ~Beats(Leader, m)
        /\ ~(/\ Cardinality(Leaders) >= 2 /\ PerfectTie(Leaders)
             /\ SecondPlacePerfectTie)

(***************************************************************************)
(* C20.  The ranking comparator is a strict total order on the registered  *)
(* candidates of any reachable election: no two distinct candidates        *)
(* compare Equal, and the relation is antisymmetric and transitive.        *)
(***************************************************************************)
C20_StrictTotalOrder ==
    \A a \in Registered : \A b \in Registered : \A c \in Registered :
        LET sa == SortedOptionOf(a)
            sb == SortedOptionOf(b)
            sc == SortedOptionOf(c)
        IN  /\ compare(Self, sa, sb) = "Equal" <=> a = b
            /\ compare(Self, sa, sb) = "Less" <=> compare(Self, sb, sa) = "Greater"
            /\ (compare(Self, sa, sb) = "Less" /\ compare(Self, sb, sc) = "Less")
                  => compare(Self, sa, sc) = "Less"

\* Three candidates, two of them with the same recorded scores, have been
\* ranked by determine_winner.
C20_Witness ==
    /\ Returned
    /\ Cardinality(Registered) = 3
    /\ Len(ballots) = 2
    /\ \E a \in Registered : \E b \in Registered \ {a} :
        /\ ByValueOf(a) = ByValueOf(b)
        /\ TotalOf(a) > 0

(***************************************************************************)
(* C21.  A successful cast_ballot applies exactly the ballot's entries:    *)
(* for each (candidate, score) entry the candidate's total grows by score  *)
(* and its by_value[score] by 1, every candidate the ballot does not       *)
(* mention keeps its metrics, and the ballot becomes the last element of   *)
(* the log, whose length grows by 1.  An empty ballot is accepted and      *)
(* appended without changing any metrics.                                  *)
(***************************************************************************)
C21_CastAppliesEntries ==
    [][\A ballot \in Ballots : \A ord \in Perms(DOMAIN ballot) :
          (DOMAIN ballot \subseteq Registered /\ Cast(ballot, ord))
              => /\ result'.err = "Ok"
                 /\ DOMAIN options' = DOMAIN options
                 /\ \A c \in Registered :
                      IF c \in DOMAIN ballot
                      THEN /\ options'[c].metrics.total
                                = options[c].metrics.total + ballot[c]
                           /\ \A v \in Score :
                                options'[c].metrics.by_value[v]
                                    = options[c].metrics.by_value[v]
                                        + (IF v = ballot[c] THEN 1 ELSE 0)
                      ELSE options'[c].metrics = options[c].metrics
                 /\ Len(ballots') = Len(ballots) + 1
                 /\ ballots'[Len(ballots')] = ballot
                 /\ SubSeq(ballots', 1, Len(ballots)) = ballots]_vars

\* The second accepted ballot rates one of two registered candidates and
\* differs from the first, which gave the other candidate a score.
C21_Witness ==
    /\ result.op = "cast_ballot"
    /\ result.err = "Ok"
    /\ Len(ballots) = 2
    /\ ballots[1] # ballots[2]
    /\ Cardinality(Registered) = 2
    /\ \E c \in Registered : \E d \in Registered :
        /\ DOMAIN ballots[2] = {c}
        /\ ballots[2][c] = 2
        /\ d \in DOMAIN ballots[1]
        /\ TotalOf(d) > 0

(***************************************************************************)
(* C22.  After any sequence of add_option calls, successful or rejected    *)
(* and interleaved with casts, the `order` values of the n registered      *)
(* options are pairwise distinct and are 0..n-1 in the sequence of the     *)
(* successful registrations, the counter equals n, and each newly          *)
(* registered option starts with total 0 and all six buckets 0 while the   *)
(* existing options and the ballot log are untouched.                      *)
(***************************************************************************)
C22_RegistrationOrder ==
    [][/\ option_order' = Cardinality(DOMAIN options')
       /\ \A c \in DOMAIN options' : \A d \in DOMAIN options' :
            c # d => options'[c].order # options'[d].order
       /\ \A i \in DOMAIN IdSeq :
            IdSeq[i] \in DOMAIN options' => options'[IdSeq[i]].order = i - 1
       /\ (result'.op = "add_option" /\ result'.err = "Ok")
            => /\ DOMAIN options' = DOMAIN options \cup {result'.arg}
               /\ result'.arg \notin DOMAIN options
               /\ options'[result'.arg].order = option_order
               /\ options'[result'.arg].metrics.total = 0
               /\ \A v \in Score : options'[result'.arg].metrics.by_value[v] = 0
               /\ \A c \in DOMAIN options : options'[c] = options[c]
               /\ ballots' = ballots]_vars

\* The second option was registered after a ballot had been cast: the
\* first option holds recorded scores.
C22_Witness ==
    /\ result.op = "add_option"
    /\ result.err = "Ok"
    /\ option_order = 2
    /\ Len(ballots) >= 1
    /\ \E c \in Registered : TotalOf(c) > 0 /\ options[c].order = 0

(***************************************************************************)
(* C23.  The ballot log is append-only across any sequence of add_option,  *)
(* cast_ballot and determine_winner calls: the log before a call is a      *)
(* prefix of the log after it, only a successful cast_ballot extends it,   *)
(* by exactly one ballot, and registered options are never removed.        *)
(***************************************************************************)
C23_AppendOnly ==
    [][/\ Len(ballots') >= Len(ballots)
       /\ SubSeq(ballots', 1, Len(ballots)) = ballots
       /\ ballots' # ballots
            => /\ result'.op = "cast_ballot"
               /\ result'.err = "Ok"
               /\ Len(ballots') = Len(ballots) + 1
       /\ DOMAIN options \subseteq DOMAIN options']_vars

\* Two different ballots were logged one after the other and
\* determine_winner has returned since.
C23_Witness ==
    /\ Returned
    /\ Len(ballots) = 2
    /\ ballots[1] # ballots[2]
    /\ Cardinality(Registered) = 2

(***************************************************************************)
(* C24.  For a vote whose ballots only score its options with values       *)
(* 0..5, the statistics calculate_stats computes match the metrics of the  *)
(* Election built from the same options and ballots: total_score = total,  *)
(* frequency[v] = by_value[v] for v in 0..5, total_votes = the sum of      *)
(* by_value and total_ballots = the length of the log.  get_results        *)
(* returns them both when a winner is determined and when the tally ends   *)
(* in InsufficientOptions, FirstPlaceTie or SecondPlaceTie.                *)
(***************************************************************************)
C24_StatsMatchMetrics ==
    (result.op = "get_results" /\ result.ret # "Err") =>
        /\ result.ret = "Ok"
        /\ result.error \in {"None", "InsufficientOptions", "FirstPlaceTie",
                             "SecondPlaceTie"}
        /\ result.error = "None" <=> determine_winner(Self).err = "Ok"
        /\ result.error # "None" => result.error = determine_winner(Self).err
        /\ DOMAIN result.stats.option_scores = Registered
        /\ result.stats.total_ballots = Len(ballots)
        /\ \A c \in Registered :
            LET stats == result.stats.option_scores[c]
            IN  /\ stats.total_score = TotalOf(c)
                /\ DOMAIN stats.frequency = 0 .. 5
                /\ \A v \in 0 .. 5 : stats.frequency[v] = ByValueOf(c)[v]
                /\ stats.total_votes
                      = ByValueOf(c)[0] + ByValueOf(c)[1] + ByValueOf(c)[2]
                          + ByValueOf(c)[3] + ByValueOf(c)[4] + ByValueOf(c)[5]

\* get_results has returned statistics with the error SecondPlaceTie; one
\* option was rated 0 by a ballot.
C24_Witness ==
    /\ result.op = "get_results"
    /\ result.ret = "Ok"
    /\ result.error = "SecondPlaceTie"
    /\ result.stats.total_ballots = 2
    /\ \E c \in Registered : result.stats.option_scores[c].frequency[0] = 1

(***************************************************************************)
(* C25.  On success determine_winner computes auxiliary head-to-head       *)
(* matchups between the declared winner and the up to three candidates     *)
(* ranked immediately below the top two (ranks 2, 3 and 4 of the sorted    *)
(* order when they exist), never against finalist2; the matchups have no   *)
(* influence on the winner, finalists or head_to_head of the result.       *)
(***************************************************************************)
C25_AuxiliaryMatchups ==
    ReturnedOk =>
        /\ {additional(Self)[i].candidate2 : i \in DOMAIN additional(Self)}
              = {AtRank(k) : k \in {2, 3, 4} \cap 0 .. Cardinality(Registered) - 1}
        /\ \A i \in DOMAIN additional(Self) :
              LET m == additional(Self)[i]
              IN  /\ m.candidate1 = result.winner
                  /\ m.candidate2 # result.finalist2
                  /\ m.votes1 = Cardinality(Prefer(m.candidate1, m.candidate2))
                  /\ m.votes2 = Cardinality(Prefer(m.candidate2, m.candidate1))
        /\ result = determine_winner(Self)

(***************************************************************************)
(* C26.  In every successful determine_winner result, finalist1 and        *)
(* finalist2 are two distinct registered candidates and winner is one of   *)
(* them.                                                                   *)
(***************************************************************************)
C26_FinalistsDistinct ==
    ReturnedOk =>
        /\ result.finalist1 \in Registered
        /\ result.finalist2 \in Registered
        /\ result.finalist1 # result.finalist2
        /\ result.winner \in {result.finalist1, result.finalist2}

\* No total is shared and the runoff was won by finalist1 without a
\* head-to-head majority.
C26_Witness ==
    /\ ReturnedOk
    /\ Cardinality(Leaders) = 1
    /\ Cardinality(SecondGroup) = 1
    /\ result.head_to_head[1] = result.head_to_head[2]
    /\ result.winner = result.finalist1

(***************************************************************************)
(* C27.  The runoff composition is never chosen arbitrarily among          *)
(* indistinguishable candidates: whenever determine_winner returns a       *)
(* result and some non-finalist candidate has a by_value distribution      *)
(* identical to finalist2's, finalist1 receives strictly more              *)
(* head-to-head votes than every candidate having that distribution,       *)
(* both when finalist1 strictly leads on total and when it shares its      *)
(* total with those candidates.                                            *)
(***************************************************************************)
C27_NoArbitraryRunoff ==
    (/\ ReturnedOk
     /\ \E c \in Registered \ {result.finalist1, result.finalist2} :
            ByValueOf(c) = ByValueOf(result.finalist2))
        => \A c \in Registered \ {result.finalist1} :
              ByValueOf(c) = ByValueOf(result.finalist2)
                  => Beats(result.finalist1, c)

(***************************************************************************)
(* C28.  For any two candidates the six metric keys of the comparator      *)
(* (total, non-zero count, by_value[5], by_value[4], by_value[0],          *)
(* by_value[1]) are all equal if and only if their six-bucket by_value     *)
(* distributions are identical; hence the positional key decides the       *)
(* order only between perfectly tied candidates, and perfectly tied        *)
(* candidates are adjacent in the sorted order.                            *)
(***************************************************************************)
C28_KeysEqualIffIdentical ==
    \A a \in Registered : \A b \in Registered :
        /\ MetricKeysEqual(a, b) <=> ByValueOf(a) = ByValueOf(b)
        /\ ByValueOf(a) # ByValueOf(b)
              => \A i \in 0 .. 2 : \A j \in 0 .. 2 :
                    compare(Self, [option |-> a, idx |-> i],
                                  [option |-> b, idx |-> j])
                        = compare(Self, [option |-> a, idx |-> j],
                                        [option |-> b, idx |-> i])
        /\ ByValueOf(a) = ByValueOf(b)
              => \A c \in Registered :
                    (RankOf(a) < RankOf(c) /\ RankOf(c) < RankOf(b))
                        => ByValueOf(c) = ByValueOf(a)

\* Three candidates with the same total have been ranked; two have the
\* same distribution and the third another one.
C28_Witness ==
    /\ Returned
    /\ Cardinality(Registered) = 3
    /\ Cardinality(Leaders) = 3
    /\ \A c \in Registered : TotalOf(c) = 2
    /\ ~PerfectTie(Registered)
    /\ \E a \in Registered : \E b \in Registered \ {a} : ByValueOf(a) = ByValueOf(b)

(***************************************************************************)
(* C29.  A group of candidates sharing a total is treated as a perfect     *)
(* tie exactly when all members of the group have identical by_value       *)
(* distributions: a group of three or more whose two highest-ranked        *)
(* members are identical while a lower-ranked member differs is not a      *)
(* perfect tie, and in the second-place branch the leader is required to   *)
(* beat only the candidates whose distribution equals rank 1's.            *)
(***************************************************************************)
C29_PerfectTieIsWholeGroup ==
    Returned =>
        LET sorted == sort_options_by_score(Self).sorted
            nl == Cardinality(Leaders)
            ns == Cardinality(SecondGroup)
        IN  /\ nl >= 2
                  => (is_perfect_tie(Self, SubSeq(sorted, 1, nl))
                          <=> PerfectTie(Leaders))
            /\ (nl = 1 /\ ns >= 2)
                  => (is_perfect_tie(Self, SubSeq(sorted, 2, ns + 1))
                          <=> PerfectTie(SecondGroup))
            /\ result.err = "FirstPlaceTie" => PerfectTie(Leaders)
            /\ result.err = "SecondPlaceTie"
                  => \E m \in SecondGroup :
                        /\ ByValueOf(m) = ByValueOf(AtRank(1))
                        /\ ~Beats(Leader, m)

(***************************************************************************)
(* C30.  The head-to-head count is symmetric under swapping its arguments  *)
(* and empty on the diagonal: get_head_to_head_votes(a, b) = (x, y) if     *)
(* and only if get_head_to_head_votes(b, a) = (y, x), x + y never exceeds  *)
(* the number of logged ballots that score both a and b, and               *)
(* get_head_to_head_votes(a, a) = (0, 0).                                  *)
(***************************************************************************)
C30_HeadToHeadSymmetric ==
    \A a \in Ids : \A b \in Ids :
        LET ab == get_head_to_head_votes(Self, a, b)
            ba == get_head_to_head_votes(Self, b, a)
        IN  /\ ba = <<ab[2], ab[1]>>
            /\ ab[1] + ab[2] <= Cardinality(ScoreBoth(a, b))
            /\ get_head_to_head_votes(Self, a, a) = <<0, 0>>

\* Of two logged ballots that rate both finalists one gives them the same
\* score, and the runoff counted a single vote.
C30_Witness ==
    /\ ReturnedOk
    /\ Cardinality(ScoreBoth(result.finalist1, result.finalist2)) = 2
    /\ result.head_to_head = <<1, 0>>
    /\ get_head_to_head_votes(Self, result.finalist2, result.finalist1) = <<0, 1>>

=============================================================================
